---- MODULE Spec2Model ----
(***************************************************************************)
(* mysh: a pipeline shell (src/mysh.c).  The shell process reads a line,   *)
(* counts its pipes, splits it on "|" and, per segment, creates a pipe,    *)
(* forks a child that rewires its standard streams and executes the        *)
(* program, closes its own copies and finally waits num_pipes + 1 times.   *)
(*                                                                         *)
(* Text is a sequence of one-character strings.  A descriptor table maps   *)
(* descriptor numbers to open file descriptions.  Every process owns a     *)
(* table; fork copies the parent's table into the child.                   *)
(***************************************************************************)
EXTENDS Integers, Sequences, FiniteSets, TLC

\* ------------------------------------------------------------- bounds
MaxLines == 2      \* lines read before the input reaches end-of-file
MaxKids == 4       \* processes the system lets the shell create: then fork fails
NumFds == 6        \* descriptor-table size of a process (RLIMIT_NOFILE)
MaxLinks == 3      \* pipes the system can create (system file table)
PipeCap == 1       \* capacity of a pipe buffer, in write units

\* ------------------------------------------------------------- constants
MAX_ARGS == 10

\* units a writer program produces: more than one pipe buffer holds
WriteUnits == PipeCap + 1

NULL == << >>
ExitTok == <<"e", "x", "i", "t", "\n">>
NewlineTok == <<"\n">>
PipeTok == <<"|">>

\* ------------------------------------------------------------- text
\* the line "q a a ... a\n": the program q with n further arguments
RECURSIVE Arguments(_)
Arguments(n) == IF n = 0 THEN << >> ELSE <<" ", "a">> \o Arguments(n - 1)
ArgLine(n) == <<"q">> \o Arguments(n) \o NewlineTok

\* the lines fgets can return
Lines ==
    { NewlineTok,
      ExitTok,
      <<"y", " ", "|", " ", "c", "\n">>,
      <<"y", " ", "|", " ", "q", "\n">>,
      <<"y", "|", "q", "\n">>,
      <<"|", " ", "q", "\n">>,
      <<" ", "|", " ", "q", "\n">>,
      <<"|", " ", "|", " ", "q", "\n">>,
      <<"c", " ", "|", " ", "\n">>,
      <<"y", " ", "|", " ", "c", " ", "|", " ", "c", "\n">>,
      <<"y", " ", "|", " ", "c", "|", "q", "\n">>,
      <<"q", " ", "|", "e", "x", "i", "t", "\n">>,
      <<"q", " ", "|", " ", "e", "x", "i", "t", "\n">>,
      <<" ", "\n">>,
      ArgLine(MAX_ARGS),
      <<"c", " ", "<", " ", "|", " ", "q", "\n">>,
      <<"y", " ", "|", " ", "c", " ", "<", " ", "n", "\n">>,
      <<"y", " ", "|", " ", "x", "\n">>,
      <<"c", " ", "<", " ", "f", "\n">>,
      ArgLine(MAX_ARGS - 1) }

\* number of leading characters of s equal to the delimiter d
RECURSIVE Span(_, _)
Span(s, d) ==
    IF s = << >> \/ Head(s) # d THEN 0 ELSE 1 + Span(Tail(s), d)

\* number of leading characters of s different from c
RECURSIVE CSpan(_, _)
CSpan(s, c) ==
    IF s = << >> \/ Head(s) = c THEN 0 ELSE 1 + CSpan(Tail(s), c)

\* the token that starts t, a text with no leading delimiter: it runs for
\* k characters, the delimiter after it is overwritten, the scan resumes
\* behind that
TokenAt(t, k) == [tok |-> SubSeq(t, 1, k), rest |-> SubSeq(t, k + 2, Len(t))]
FirstToken(t, d) ==
    IF t = << >> THEN [tok |-> NULL, rest |-> << >>] ELSE TokenAt(t, CSpan(t, d))

\* strtok: skip leading delimiters, then the token runs to the next
\* delimiter.  NULL when only delimiters are left.
Strtok(s, d) == FirstToken(SubSeq(s, Span(s, d) + 1, Len(s)), d)

\* s[strcspn(s, "\n")] = 0
StripNewline(s) == SubSeq(s, 1, CSpan(s, "\n"))

RECURSIVE count_pipes(_)
count_pipes(input_buf) ==
    LET r == Strtok(input_buf, " ")
    IN  IF r.tok = NULL THEN 0
        ELSE (IF r.tok = PipeTok THEN 1 ELSE 0) + count_pipes(r.rest)

\* the segments strtok(.., "|") yields for a line, in order
RECURSIVE Segments(_)
Segments(s) ==
    LET r == Strtok(s, "|")
    IN  IF r.tok = NULL THEN << >> ELSE <<r.tok>> \o Segments(r.rest)

\* ------------------------------------------------------------- descriptors
Fds == 0 .. (NumFds - 1)

NoFile == [k |-> "none", id |-> 0]
Std(n) == [k |-> "std", id |-> n]
ReadEnd(l) == [k |-> "r", id |-> l]
WriteEnd(l) == [k |-> "w", id |-> l]
InFile == [k |-> "file", id |-> 0]
OutFile == [k |-> "file", id |-> 1]

\* the table the shell starts with: 0, 1 and 2 inherited, the rest closed
ShellFds == [fd \in Fds |-> IF fd <= 2 THEN Std(fd) ELSE NoFile]
ClosedFds == [fd \in Fds |-> NoFile]

IsOpen(t, fd) == fd \in Fds /\ t[fd].k # "none"
FreeFds(t) == { fd \in Fds : t[fd].k = "none" }
LowestFree(t) == CHOOSE fd \in FreeFds(t) : \A g \in FreeFds(t) : fd <= g
Close(t, fd) == [t EXCEPT ![fd] = NoFile]
Dup2(t, old, new) == [t EXCEPT ![new] = t[old]]
IsPipeEnd(o) == o.k \in {"r", "w"}

Max(a, b) == IF a >= b THEN a ELSE b

\* ------------------------------------------------------------- process_args
\* what execvp finds for a program name: "" when there is no such program
ProgramKind(name) ==
    CASE name = <<"y">> -> "writer"
      [] name = <<"c">> -> "reader"
      [] name = <<"q">> -> "quitter"
      [] OTHER -> ""

\* open(input_file, O_RDONLY) succeeds for the one file that exists
InputFileExists(name) == name = <<"f">>
\* open(output_file, O_CREAT | ...) creates any file with a non-empty name
OutputFileOpens(name) == name # << >>

\* the comparison done against "exit", without the line terminator
IsExitToken_NoNewline(token) == token = <<"e", "x", "i", "t">>

\* strcmp(token, "exit\n") == 0
IsExitToken(token) == token = ExitTok

\* the state of one run of process_args: st is "run" while it is running,
\* "exit" once it called exit(status), "ub" once it dereferenced NULL,
\* "overflow" when it stored past the end of opt_args_buf, "exec" when
\* execvp replaced the image by the program prog
ChildStart(arg_str, fdt) ==
    [st |-> "run", status |-> 0, fdt |-> fdt, rest |-> arg_str,
     idx |-> 0, maxw |-> -1, prog |-> ""]

\* perror without the exit that follows it: process_args returns
ChildExit_Returns(c, code) == [c EXCEPT !.st = "return"]

\* perror(...); exit(code)
ChildExit(c, code) == [c EXCEPT !.st = "exit", !.status = code]

\* if (fd != std) { dup2(fd, std); close(fd); }
Rebind(c, fd, std) ==
    IF c.st # "run" \/ fd = std THEN c
    ELSE IF ~IsOpen(c.fdt, fd) THEN ChildExit(c, 2)
    ELSE [c EXCEPT !.fdt = Close(Dup2(c.fdt, fd, std), fd)]

IsRedirection(token) == token \in { <<"<">>, <<">">>, <<">", ">">> }

\* the standard stream a redirection operator rebinds
RedirectedStream(op) == IF op = <<"<">> THEN 0 ELSE 1

\* open(2) of the redirection file succeeds
Opens(std, name) == IF std = 0 THEN InputFileExists(name) ELSE OutputFileOpens(name)

\* fd = open(..); dup2(fd, std): fd itself stays open
BindFile(t, fd, std) ==
    Dup2([t EXCEPT ![fd] = IF std = 0 THEN InFile ELSE OutFile], fd, std)

\* open the file named name and bind it to std; opt_args_buf[args_buf_index] = NULL
OpenAndBind(c, std, name) ==
    IF ~Opens(std, name) \/ FreeFds(c.fdt) = { } THEN ChildExit(c, 1)
    ELSE [c EXCEPT !.fdt = BindFile(c.fdt, LowestFree(c.fdt), std),
                   !.maxw = Max(c.maxw, c.idx)]

\* the file name is the token r that follows the operator: it is used
\* without a check for NULL
RedirectTo(c, std, r) ==
    IF r.tok = NULL THEN [c EXCEPT !.st = "ub"]
    ELSE OpenAndBind([c EXCEPT !.rest = r.rest], std, StripNewline(r.tok))

\* one redirection operator ("<", ">" or ">>")
Redirect(c, op) == RedirectTo(c, RedirectedStream(op), Strtok(c.rest, " "))

\* an argument token: opt_args_buf[args_buf_index] = token; args_buf_index++
StoreArg(c) == [c EXCEPT !.maxw = Max(c.maxw, c.idx), !.idx = c.idx + 1]

\* the body of the while(token != NULL) loop for one token
ScanStep(c, token) ==
    IF IsExitToken(token) THEN ChildExit(c, 0)
    ELSE IF IsRedirection(token) THEN Redirect(c, token)
    ELSE StoreArg(c)

\* the while(token != NULL) loop, token = strtok(NULL, " ") at its end
RECURSIVE ScanTokens(_, _)
ScanNext(d) ==
    ScanTokens([d EXCEPT !.rest = Strtok(d.rest, " ").rest], Strtok(d.rest, " ").tok)
ScanTokens(c, token) ==
    IF c.st # "run" \/ token = NULL THEN c ELSE ScanNext(ScanStep(c, token))

\* after the loop: strip program_name (the first token, NULL for a segment
\* of spaces), store the final NULL and call execvp
Execvp(c, program_name) ==
    IF c.st # "run" THEN c
    ELSE IF program_name = NULL THEN [c EXCEPT !.st = "ub"]
    ELSE IF c.idx >= MAX_ARGS
         THEN [c EXCEPT !.st = "overflow", !.maxw = c.idx,
                        !.prog = ProgramKind(StripNewline(program_name))]
    ELSE IF ProgramKind(StripNewline(program_name)) = ""
         THEN ChildExit([c EXCEPT !.maxw = c.idx], 3)
    ELSE [c EXCEPT !.st = "exec", !.maxw = c.idx,
                   !.prog = ProgramKind(StripNewline(program_name))]

ScanFrom(c, first) == ScanTokens([c EXCEPT !.rest = first.rest], first.tok)

\* process_args(arg_str, read_fd, write_fd) in a child whose table is fdt
process_args(arg_str, read_fd, write_fd, fdt) ==
    Execvp(ScanFrom(Rebind(Rebind(ChildStart(arg_str, fdt), write_fd, 1), read_fd, 0),
                    Strtok(arg_str, " ")),
           Strtok(arg_str, " ").tok)

\* ------------------------------------------------------------- state
VARIABLES
    pc,            \* where the shell process is: "fgets", "loop", "fork",
                   \* "parent", "wait" or "exited"
    status,        \* exit status of the shell process, -1 while it runs
    line,          \* input_buf as read by fgets
    token,         \* main's token: the current segment, NULL at the end
    rest,          \* what strtok(NULL, "|") has left to scan
    num_pipes, pipe_index, read_fd, write_fd, prev_read_fd,
    wait_i,        \* the i of the wait loop
    pfd,           \* descriptor table of the shell process
    kids,          \* the child processes, by pid
    buf,           \* units buffered in each pipe
    nlinks,        \* pipes created so far
    lineNo,        \* lines read so far
    forks, waits, made,   \* forks, wait calls and pipes of the current line
    curLink, prevLink     \* pipe made in this iteration and in the one before, 0 if none

vars == <<pc, status, line, token, rest, num_pipes, pipe_index, read_fd, write_fd,
          prev_read_fd, wait_i, pfd, kids, buf, nlinks, lineNo, forks, waits, made,
          curLink, prevLink>>

mainLocals == <<line, token, rest, num_pipes, pipe_index, read_fd, write_fd, prev_read_fd>>
lineCounts == <<lineNo, forks, waits, made>>

Pids == 1 .. MaxKids
Links == 1 .. MaxLinks

NoKid ==
    [st |-> "none", ln |-> 0, idx |-> 0, tok |-> << >>, rfd |-> 0, wfd |-> 0,
     fdt |-> ClosedFds, prog |-> "", left |-> 0, status |-> -1, cause |-> "",
     outl |-> 0, inl |-> 0, maxw |-> -1]

Alive(k) == k.st \in {"forked", "running", "returned"}
Unreaped(k) == k.st \in {"forked", "running", "returned", "zombie"}

\* termination closes every descriptor of the process
Terminated(k, code, why) ==
    [k EXCEPT !.st = "zombie", !.fdt = ClosedFds, !.tok = << >>, !.left = 0,
              !.status = code, !.cause = why]

Holds(t, o) == \E fd \in Fds : t[fd] = o
\* some process has the pipe end o open
Open(o) ==
    \/ Holds(pfd, o)
    \/ \E p \in Pids : Alive(kids[p]) /\ Holds(kids[p].fdt, o)

Init ==
    /\ pc = "fgets"
    /\ status = -1
    /\ line = << >>
    /\ token = NULL
    /\ rest = << >>
    /\ num_pipes = 0
    /\ pipe_index = 0
    /\ read_fd = 0
    /\ write_fd = 1
    /\ prev_read_fd = 0
    /\ wait_i = 0
    /\ pfd = ShellFds
    /\ kids = [p \in Pids |-> NoKid]
    /\ buf = [l \in Links |-> 0]
    /\ nlinks = 0
    /\ lineNo = 0
    /\ forks = 0
    /\ waits = 0
    /\ made = 0
    /\ curLink = 0
    /\ prevLink = 0

\* ------------------------------------------------------------- main
\* fgets returns a line: count its pipes, reset the descriptors, first strtok
Fgets ==
    /\ pc = "fgets"
    /\ lineNo < MaxLines
    /\ \E l \in Lines :
          /\ line' = l
          /\ num_pipes' = count_pipes(l)
          /\ token' = Strtok(l, "|").tok
          /\ rest' = Strtok(l, "|").rest
    /\ write_fd' = 1
    /\ read_fd' = 0
    /\ pipe_index' = 0
    /\ pc' = "loop"
    /\ lineNo' = lineNo + 1
    /\ forks' = 0
    /\ waits' = 0
    /\ made' = 0
    /\ curLink' = 0
    /\ prevLink' = 0
    /\ UNCHANGED <<status, prev_read_fd, wait_i, pfd, kids, buf, nlinks>>

\* fgets returns NULL: main returns 0; the exit of a process closes its
\* descriptors
FgetsEOF ==
    /\ pc = "fgets"
    /\ pc' = "exited"
    /\ status' = 0
    /\ pfd' = ClosedFds
    /\ UNCHANGED <<mainLocals, wait_i, kids, buf, nlinks, lineCounts, curLink, prevLink>>

ToWaitLoop ==
    /\ pc' = "wait"
    /\ wait_i' = 0

\* while(token != NULL) is false
LoopEnd ==
    /\ pc = "loop"
    /\ token = NULL
    /\ ToWaitLoop
    /\ UNCHANGED <<status, mainLocals, pfd, kids, buf, nlinks, lineCounts, curLink, prevLink>>

\* strcmp(token, "exit\n") == 0: exit(EXIT_SUCCESS)
ExitCommand ==
    /\ pc = "loop"
    /\ token # NULL
    /\ IsExitToken(token)
    /\ pc' = "exited"
    /\ status' = 0
    /\ pfd' = ClosedFds
    /\ UNCHANGED <<mainLocals, wait_i, kids, buf, nlinks, lineCounts, curLink, prevLink>>

\* strcmp(token, "\n") == 0: break
EmptyToken ==
    /\ pc = "loop"
    /\ token # NULL
    /\ ~IsExitToken(token)
    /\ token = NewlineTok
    /\ ToWaitLoop
    /\ UNCHANGED <<status, mainLocals, pfd, kids, buf, nlinks, lineCounts, curLink, prevLink>>

AtStage ==
    /\ pc = "loop"
    /\ token # NULL
    /\ ~IsExitToken(token)
    /\ token # NewlineTok

\* if (pipe_index < num_pipes)
NeedsPipe(index, pipes) == index < pipes

\* pipe(fds) succeeds when two descriptors and a pipe are available
PipeAvailable == Cardinality(FreeFds(pfd)) >= 2 /\ nlinks < MaxLinks

\* a stage that needs no pipe: prev_read_fd = read_fd, go on to fork
StageNoPipe ==
    /\ AtStage
    /\ ~NeedsPipe(pipe_index, num_pipes)
    /\ prev_read_fd' = read_fd
    /\ prevLink' = curLink
    /\ curLink' = 0
    /\ pc' = "fork"
    /\ UNCHANGED <<status, line, token, rest, num_pipes, pipe_index, read_fd, write_fd,
                   wait_i, pfd, kids, buf, nlinks, lineCounts>>

\* pipe(fds) succeeds: read_fd = fds[0], write_fd = fds[1]
StagePipe ==
    /\ AtStage
    /\ NeedsPipe(pipe_index, num_pipes)
    /\ PipeAvailable
    /\ LET r == LowestFree(pfd)
           w == LowestFree([pfd EXCEPT ![r] = ReadEnd(nlinks + 1)])
       IN  /\ pfd' = [pfd EXCEPT ![r] = ReadEnd(nlinks + 1), ![w] = WriteEnd(nlinks + 1)]
           /\ read_fd' = r
           /\ write_fd' = w
    /\ prev_read_fd' = read_fd
    /\ nlinks' = nlinks + 1
    /\ made' = made + 1
    /\ prevLink' = curLink
    /\ curLink' = nlinks + 1
    /\ pc' = "fork"
    /\ UNCHANGED <<status, line, token, rest, num_pipes, pipe_index, wait_i, kids, buf,
                   lineNo, forks, waits>>

\* pipe(fds) < 0: perror, break
StagePipeFails ==
    /\ AtStage
    /\ NeedsPipe(pipe_index, num_pipes)
    /\ ~PipeAvailable
    /\ prev_read_fd' = read_fd
    /\ ToWaitLoop
    /\ UNCHANGED <<status, line, token, rest, num_pipes, pipe_index, read_fd, write_fd,
                   pfd, kids, buf, nlinks, lineCounts, curLink, prevLink>>

FreePids == { p \in Pids : kids[p].st = "none" }

\* the descriptors the child passes to process_args (lines 93-105)
ChildReadFd(index, prev) == IF index = 0 THEN 0 ELSE prev
ChildWriteFd(index, pipes, wfd) ==
    IF index = 0 THEN wfd ELSE IF index = pipes THEN 1 ELSE wfd

\* fork() succeeds: the child is a copy of the shell, descriptor table included
Fork ==
    /\ pc = "fork"
    /\ FreePids # { }
    /\ LET p == CHOOSE q \in FreePids : \A o \in FreePids : q <= o
       IN  kids' = [kids EXCEPT ![p] =
                [NoKid EXCEPT !.st = "forked", !.ln = lineNo, !.idx = pipe_index,
                              !.tok = token, !.fdt = pfd,
                              !.rfd = ChildReadFd(pipe_index, prev_read_fd),
                              !.wfd = ChildWriteFd(pipe_index, num_pipes, write_fd),
                              !.outl = curLink, !.inl = prevLink]]
    /\ forks' = forks + 1
    /\ pc' = "parent"
    /\ UNCHANGED <<status, mainLocals, wait_i, pfd, buf, nlinks, lineNo, waits, made,
                   curLink, prevLink>>

\* fork() < 0: perror, exit(1)
ForkFails ==
    /\ pc = "fork"
    /\ FreePids = { }
    /\ pc' = "exited"
    /\ status' = 1
    /\ pfd' = ClosedFds
    /\ UNCHANGED <<mainLocals, wait_i, kids, buf, nlinks, lineCounts, curLink, prevLink>>

\* the parent keeps the write end it handed to the child
ClosesWriteEnd_Skipped(index, pipes) == FALSE

\* the parent closes write_fd when the stage got a pipe
ClosesWriteEnd(index, pipes) == pipes > 0 /\ index < pipes
\* the parent closes prev_read_fd when the stage is not the first
ClosesPrevReadEnd(index, pipes) == pipes > 0 /\ index # 0

\* the parent branch after fork (lines 108-130): the two closes, a failed
\* close breaks out of the loop; then the next token and pipe_index++
Parent ==
    /\ pc = "parent"
    /\ LET cw == ClosesWriteEnd(pipe_index, num_pipes)
           cr == ClosesPrevReadEnd(pipe_index, num_pipes)
           wfails == cw /\ ~IsOpen(pfd, write_fd)
           t1 == IF cw /\ ~wfails THEN Close(pfd, write_fd) ELSE pfd
           rfails == ~wfails /\ cr /\ ~IsOpen(t1, prev_read_fd)
           t2 == IF cr /\ ~wfails /\ ~rfails THEN Close(t1, prev_read_fd) ELSE t1
       IN  /\ pfd' = t2
           /\ IF wfails \/ rfails
              THEN /\ ToWaitLoop
                   /\ UNCHANGED <<token, rest, pipe_index>>
              ELSE /\ token' = Strtok(rest, "|").tok
                   /\ rest' = Strtok(rest, "|").rest
                   /\ pipe_index' = pipe_index + 1
                   /\ pc' = "loop"
                   /\ UNCHANGED wait_i
    /\ UNCHANGED <<status, line, num_pipes, read_fd, write_fd, prev_read_fd, kids, buf,
                   nlinks, lineCounts, curLink, prevLink>>

\* wait(NULL) returns a terminated child
WaitReaps(p) ==
    /\ pc = "wait"
    /\ wait_i < num_pipes + 1
    /\ kids[p].st = "zombie"
    /\ kids' = [kids EXCEPT ![p].st = "reaped"]
    /\ wait_i' = wait_i + 1
    /\ waits' = waits + 1
    /\ UNCHANGED <<pc, status, mainLocals, pfd, buf, nlinks, lineNo, forks, made,
                   curLink, prevLink>>

\* wait(NULL) returns -1 at once: the shell has no child
WaitNoChild ==
    /\ pc = "wait"
    /\ wait_i < num_pipes + 1
    /\ \A p \in Pids : ~Unreaped(kids[p])
    /\ wait_i' = wait_i + 1
    /\ waits' = waits + 1
    /\ UNCHANGED <<pc, status, mainLocals, pfd, kids, buf, nlinks, lineNo, forks, made,
                   curLink, prevLink>>

\* the wait loop is over: print_prompt, back to fgets
PrintPrompt ==
    /\ pc = "wait"
    /\ wait_i = num_pipes + 1
    /\ pc' = "fgets"
    /\ UNCHANGED <<status, mainLocals, wait_i, pfd, kids, buf, nlinks, lineCounts,
                   curLink, prevLink>>

\* ------------------------------------------------------------- children
\* the child after execvp replaced its image by the program c.prog
Started(k, c) ==
    [k EXCEPT !.st = "running", !.fdt = c.fdt, !.tok = << >>, !.prog = c.prog,
              !.maxw = c.maxw, !.left = IF c.prog = "writer" THEN WriteUnits ELSE 0]

\* the child after process_args came to the end c
ChildOutcome(p, c) ==
    \/ /\ c.st = "exec"
       /\ kids' = [kids EXCEPT ![p] = Started(kids[p], c)]
    \/ /\ c.st = "exit"
       /\ kids' = [kids EXCEPT ![p] =
                     Terminated([kids[p] EXCEPT !.maxw = c.maxw], c.status, "exit")]
    \* a NULL pointer was dereferenced: the child is killed by the signal,
    \* or the read goes through and execvp fails
    \/ /\ c.st = "ub"
       /\ \E code \in {139, 3} :
             kids' = [kids EXCEPT ![p] =
                         Terminated([kids[p] EXCEPT !.maxw = c.maxw], code, "ub")]
    \* the stack was overwritten: killed, or execvp is reached all the same
    \/ /\ c.st = "overflow"
       /\ \/ kids' = [kids EXCEPT ![p] =
                         Terminated([kids[p] EXCEPT !.maxw = c.maxw], 139, "ub")]
          \/ /\ c.prog # ""
             /\ kids' = [kids EXCEPT ![p] = Started(kids[p], c)]
    \* process_args came back to its caller: the child is in the stage loop
    \* of main, with the descriptors it has
    \/ /\ c.st = "return"
       /\ kids' = [kids EXCEPT ![p].st = "returned", ![p].fdt = c.fdt,
                                ![p].maxw = c.maxw]

\* the child runs process_args to its end: the program image is replaced or
\* the child has exited
ChildRuns(p) ==
    /\ kids[p].st = "forked"
    /\ ChildOutcome(p, process_args(kids[p].tok, kids[p].rfd, kids[p].wfd, kids[p].fdt))
    /\ UNCHANGED <<pc, status, mainLocals, wait_i, pfd, buf, nlinks, lineCounts,
                   curLink, prevLink>>

\* the program's next write to standard output goes through
CanWrite(k) ==
    /\ k.st = "running" /\ k.prog = "writer" /\ k.left > 0
    /\ \/ k.fdt[1].k \in {"std", "file"}
       \/ k.fdt[1].k = "w" /\ Open(ReadEnd(k.fdt[1].id)) /\ buf[k.fdt[1].id] < PipeCap

\* the program's next read from standard input returns data
CanRead(k) ==
    /\ k.st = "running" /\ k.prog = "reader"
    /\ k.fdt[0].k = "r" /\ buf[k.fdt[0].id] > 0

\* why the program terminates now, "" when it does not: it is done, its
\* read returns end-of-stream, its write finds no reader left, or its
\* standard stream is no descriptor it can use
ExitCause(k) ==
    IF k.st # "running" THEN ""
    ELSE IF k.prog = "quitter" THEN "done"
    ELSE IF k.prog = "writer" THEN
        IF k.left = 0 THEN "done"
        ELSE IF k.fdt[1].k = "w" /\ ~Open(ReadEnd(k.fdt[1].id)) THEN "epipe"
        ELSE IF k.fdt[1].k \in {"none", "r"} THEN "ebadf"
        ELSE ""
    ELSE IF k.fdt[0].k = "r" /\ buf[k.fdt[0].id] = 0 /\ ~Open(WriteEnd(k.fdt[0].id)) THEN "eof"
    ELSE IF k.fdt[0].k \in {"std", "file"} THEN "eof"
    ELSE IF k.fdt[0].k \in {"none", "w"} THEN "ebadf"
    ELSE ""

ProgWrites(p) ==
    /\ CanWrite(kids[p])
    /\ kids' = [kids EXCEPT ![p].left = @ - 1]
    /\ buf' = IF kids[p].fdt[1].k = "w"
              THEN [buf EXCEPT ![kids[p].fdt[1].id] = @ + 1] ELSE buf
    /\ UNCHANGED <<pc, status, mainLocals, wait_i, pfd, nlinks, lineCounts, curLink, prevLink>>

ProgReads(p) ==
    /\ CanRead(kids[p])
    /\ buf' = [buf EXCEPT ![kids[p].fdt[0].id] = @ - 1]
    /\ UNCHANGED <<pc, status, mainLocals, wait_i, pfd, kids, nlinks, lineCounts,
                   curLink, prevLink>>

ProgExits(p) ==
    /\ ExitCause(kids[p]) # ""
    /\ kids' = [kids EXCEPT ![p] =
                  Terminated(kids[p], IF ExitCause(kids[p]) \in {"done", "eof"} THEN 0 ELSE 1,
                             ExitCause(kids[p]))]
    /\ UNCHANGED <<pc, status, mainLocals, wait_i, pfd, buf, nlinks, lineCounts,
                   curLink, prevLink>>

\* ------------------------------------------------------------- specification
Next ==
    \/ Fgets
    \/ FgetsEOF
    \/ LoopEnd
    \/ ExitCommand
    \/ EmptyToken
    \/ StageNoPipe
    \/ StagePipe
    \/ StagePipeFails
    \/ Fork
    \/ ForkFails
    \/ Parent
    \/ \E p \in Pids : WaitReaps(p)
    \/ WaitNoChild
    \/ PrintPrompt
    \/ \E p \in Pids : ChildRuns(p)
    \/ \E p \in Pids : ProgWrites(p)
    \/ \E p \in Pids : ProgReads(p)
    \/ \E p \in Pids : ProgExits(p)

Spec == Init /\ [][Next]_vars

TypeOK ==
    /\ pc \in {"fgets", "loop", "fork", "parent", "wait", "exited"}
    /\ pipe_index \in Nat /\ num_pipes \in Nat
    /\ \A p \in Pids : kids[p].st \in {"none", "forked", "running", "returned", "zombie", "reaped"}
    /\ \A l \in Links : buf[l] \in 0 .. PipeCap

\* ------------------------------------------------------------- claims
Running == { p \in Pids : kids[p].st = "running" }
Gone == { p \in Pids : kids[p].st \in {"zombie", "reaped"} }
\* the shell printed the prompt that follows a line
AtPrompt == pc = "fgets" /\ lineNo >= 1
\* the shell is inside wait(NULL) and no child has terminated
WaitBlocks ==
    /\ pc = "wait"
    /\ wait_i < num_pipes + 1
    /\ \E p \in Pids : Alive(kids[p])
    /\ \A p \in Pids : kids[p].st # "zombie"
\* the child can take a step: finish process_args, read, write or terminate
KidCanStep(k) == k.st = "forked" \/ CanWrite(k) \/ CanRead(k) \/ ExitCause(k) # ""

\* C1: a stage that executes its program holds no pipe end but the write end
\* of its own link as descriptor 1 and the read end of the previous link as
\* descriptor 0.
C1_StageHoldsOnlyItsEnds ==
    \A p \in Running : \A fd \in Fds :
        IsPipeEnd(kids[p].fdt[fd]) =>
            \/ fd = 1 /\ kids[p].outl # 0 /\ kids[p].fdt[fd] = WriteEnd(kids[p].outl)
            \/ fd = 0 /\ kids[p].inl # 0 /\ kids[p].fdt[fd] = ReadEnd(kids[p].inl)

\* C2: the pipeline never deadlocks: the shell is never blocked in wait while
\* every stage that is left is blocked for ever.
C2_NoDeadlock ==
    ~(WaitBlocks /\ \A p \in Pids : ~KidCanStep(kids[p]))

\* C3: the shell holds a write end only between the pipe call and the close
\* of the iteration that made it; no stage holds the write end of a link other
\* than its own; and once a stage has terminated (and the shell is past its
\* close) nobody has the write end of its link open, so the reader of the
\* link is not blocked: it reads data or end-of-stream.
C3_WriteEndClosedInTime ==
    /\ \A fd \in Fds :
          pfd[fd].k = "w" => pc \in {"fork", "parent"} /\ pfd[fd].id = curLink
    /\ \A p \in Pids : \A fd \in Fds :
          Alive(kids[p]) /\ kids[p].fdt[fd].k = "w" => kids[p].fdt[fd].id = kids[p].outl
    /\ \A p \in Gone :
          kids[p].outl # 0 /\ ~(pc = "parent" /\ curLink = kids[p].outl) =>
             /\ ~Open(WriteEnd(kids[p].outl))
             /\ \A q \in Running :
                   kids[q].prog = "reader" /\ kids[q].fdt[0] = ReadEnd(kids[p].outl) =>
                      IF buf[kids[p].outl] = 0 THEN ExitCause(kids[q]) = "eof"
                      ELSE CanRead(kids[q])

\* C3 witness: stage i has terminated and stage i+1, reading the drained
\* link, is at end-of-stream.
C3_Witness ==
    \E p \in Gone : \E q \in Running :
        /\ kids[p].outl # 0
        /\ kids[q].idx = kids[p].idx + 1
        /\ kids[q].fdt[0] = ReadEnd(kids[p].outl)
        /\ buf[kids[p].outl] = 0
        /\ ExitCause(kids[q]) = "eof"

\* C4: at the prompt every child forked for the line is reaped, and the line
\* got at least as many wait calls as forks.
C4_AllReapedAtPrompt ==
    AtPrompt =>
        /\ waits >= forks
        /\ \A p \in Pids : kids[p].ln = lineNo => kids[p].st = "reaped"

\* C5: at the prompt the shell holds no end of a pipe made for the line.
C5_NoPipeEndAtPrompt ==
    AtPrompt =>
        \A fd \in Fds : IsPipeEnd(pfd[fd]) => pfd[fd].id <= nlinks - made

\* C6: the pipes made for a line are one fewer than the stages spawned for it.
C6_LinksAreStagesMinusOne ==
    AtPrompt /\ forks >= 1 => made = forks - 1

\* C7: stage 0 reads the shell's standard input, the last stage writes the
\* shell's standard output, and stage i writes the link that stage i+1 reads.
C7_StagesWiredInOrder ==
    \A p \in Running :
        kids[p].ln = lineNo =>
            /\ kids[p].idx = 0 => kids[p].fdt[0] = Std(0)
            /\ kids[p].idx = Len(Segments(line)) - 1 => kids[p].fdt[1] = Std(1)
            /\ kids[p].idx < Len(Segments(line)) - 1 =>
                  /\ kids[p].outl # 0
                  /\ kids[p].fdt[1] = WriteEnd(kids[p].outl)
            /\ kids[p].idx > 0 =>
                  /\ kids[p].inl # 0
                  /\ kids[p].fdt[0] = ReadEnd(kids[p].inl)

HasExitSegment(l) == \E i \in 1 .. Len(Segments(l)) : Segments(l)[i] = ExitTok

\* C8: a line with the exit command as one of its segments spawns nothing and
\* ends the shell with status 0.
C8_ExitSegmentSpawnsNothing ==
    HasExitSegment(line) =>
        /\ forks = 0
        /\ pc # "wait"
        /\ pc = "exited" => status = 0

\* C9: the line "exit" ends the shell with status 0; no pipe is made and no
\* stage is forked for it.
C9_ExitLine ==
    line = ExitTok =>
        /\ forks = 0 /\ made = 0
        /\ \A p \in Pids : kids[p].ln # lineNo
        /\ \/ pc = "loop" /\ token = ExitTok
           \/ pc = "exited" /\ status = 0

C9_Witness == line = ExitTok /\ pc = "exited" /\ status = 0 /\ lineNo = 2

\* C10: an empty line forks nothing and the shell does not block in wait for
\* a child of an earlier line.
C10_EmptyLineNeverBlocks ==
    line = NewlineTok => forks = 0 /\ ~WaitBlocks

\* a line of one or more spaces and the line terminator
IsBlankLine(l) ==
    /\ Len(l) >= 2
    /\ l[Len(l)] = "\n"
    /\ \A i \in 1 .. (Len(l) - 1) : l[i] = " "

\* C11: a line of spaces only is an empty pipeline: nothing is forked for it
\* and no child reports an error.
C11_BlankLineSpawnsNothing ==
    IsBlankLine(line) =>
        /\ forks = 0
        /\ \A p \in Pids : kids[p].ln # lineNo

\* the argument tokens of a segment: its space-separated tokens, the
\* redirection operators and the file names after them left out
RECURSIVE ArgCount(_)
ArgCountAfter(r) ==
    IF r.tok = NULL \/ StripNewline(r.tok) = << >> THEN 0
    ELSE IF IsRedirection(StripNewline(r.tok))
         THEN ArgCount(Strtok(r.rest, " ").rest)
    ELSE 1 + ArgCount(r.rest)
ArgCount(seg) == ArgCountAfter(Strtok(seg, " "))

SegmentsOf(l) == { Segments(l)[i] : i \in 1 .. Len(Segments(l)) }

\* C12: a line with a stage of more than MAX_ARGS argument tokens is
\* rejected while parsing: no process is forked for it.
C12_TooManyArgumentsSpawnsNothing ==
    (\E seg \in SegmentsOf(line) : ArgCount(seg) > MAX_ARGS) => forks = 0

\* the last space-separated token of a segment, NULL when it has none
RECURSIVE LastToken(_)
LastTokenFrom(r) ==
    IF r.tok = NULL THEN NULL
    ELSE IF Strtok(r.rest, " ").tok = NULL THEN StripNewline(r.tok)
    ELSE LastToken(r.rest)
LastToken(seg) == LastTokenFrom(Strtok(seg, " "))

\* the segment ends with a redirection operator: no file name follows it
DanglingRedirect(seg) == IsRedirection(LastToken(seg))

\* the segment of the current line that the child k was forked for
SegmentOf(k) ==
    IF k.ln = lineNo /\ k.idx + 1 <= Len(Segments(line))
    THEN Segments(line)[k.idx + 1] ELSE << >>

\* C13: a segment that ends with a redirection operator makes the line
\* rejected, so no child of the line goes on to use the absent file name.
C13_MissingTargetNeverUsed ==
    \A p \in Pids :
        DanglingRedirect(SegmentOf(kids[p])) =>
            kids[p].st = "forked" \/ kids[p].cause # "ub"

\* a segment of spaces only: it has no program token
NoProgramToken(seg) == seg # << >> /\ Strtok(seg, " ").tok = NULL

\* C14: a segment without a program token makes the line rejected: no
\* child is launched for such a segment.
C14_EmptyStageNeverLaunched ==
    \A p \in Pids : ~ NoProgramToken(SegmentOf(kids[p]))

\* the segment redirects its input from a file that does not exist
RECURSIVE MissingInput(_)
MissingInputFrom(r) ==
    IF r.tok = NULL THEN FALSE
    ELSE IF r.tok = <<"<">>
         THEN /\ Strtok(r.rest, " ").tok # NULL
              /\ ~ InputFileExists(StripNewline(Strtok(r.rest, " ").tok))
    ELSE MissingInput(r.rest)
MissingInput(seg) == MissingInputFrom(Strtok(seg, " "))

\* C15: when a stage of a pipeline redirects its input from a file that does
\* not exist, that stage terminates before it executes a program and the
\* pipeline does not hang: the shell is never blocked in wait with every
\* stage that is left blocked for ever.
C15_MissingInputFileNeverHangs ==
    (\E seg \in SegmentsOf(line) : MissingInput(seg)) =>
        /\ \A p \in Running : ~ MissingInput(SegmentOf(kids[p]))
        /\ ~(WaitBlocks /\ \A p \in Pids : ~KidCanStep(kids[p]))

\* the children of the current line for which execvp failed
ExecFailed ==
    { p \in Pids : kids[p].ln = lineNo /\ kids[p].cause = "exit" /\ kids[p].status = 3 }

\* C16: a failure of execvp terminates that child alone, with status 3, and
\* the shell goes on: it forks the remaining stages, is never blocked for
\* ever in wait, and has reaped every stage of the line at the next prompt.
C16_ExecFailureIsContained ==
    ExecFailed # {} =>
        /\ ~(WaitBlocks /\ \A p \in Pids : ~KidCanStep(kids[p]))
        /\ AtPrompt => \A p \in Pids : kids[p].ln = lineNo => kids[p].st = "reaped"

\* the stage loop of the current line was left because pipe failed: a stage
\* that needs a pipe is still the current token and was not forked
PipeFailed ==
    /\ pc \in {"wait", "fgets"}
    /\ lineNo >= 1
    /\ token # NULL /\ token # NewlineTok
    /\ NeedsPipe(pipe_index, num_pipes)
    /\ forks = pipe_index

\* the links made for the current line
LineLinks == (nlinks - made + 1) .. nlinks

\* C17: after a failed pipe call the shell is back at the prompt with every
\* pipe end of the line closed and every stage it had forked reaped.
C17_PipeFailureCleansUp ==
    PipeFailed /\ AtPrompt =>
        /\ \A fd \in Fds : IsPipeEnd(pfd[fd]) => pfd[fd].id \notin LineLinks
        /\ \A p \in Pids : kids[p].ln = lineNo => kids[p].st = "reaped"

\* C18: a stage that executes its program holds a redirection file only as
\* the standard stream it was bound to: the descriptor open returned has
\* been closed.
C18_RedirectFdReleased ==
    \A p \in Running : \A fd \in Fds :
        /\ kids[p].fdt[fd] = InFile => fd = 0
        /\ kids[p].fdt[fd] = OutFile => fd = 1

\* C19: a child never comes back from process_args into the code of the
\* shell: once it has left process_args it executes its program or has
\* terminated.
C19_ChildNeverReturns ==
    \A p \in Pids : kids[p].st \in {"none", "forked", "running", "zombie", "reaped"}

\* C19 witness: a child whose execvp failed has exited with status 3 while
\* another child of the line executes its program.
C19_Witness ==
    /\ \E p \in Pids : kids[p].ln = lineNo /\ kids[p].cause = "exit" /\ kids[p].status = 3
    /\ \E p \in Running : kids[p].ln = lineNo
    /\ C19_ChildNeverReturns

\* C20: a stage whose segment has at most MAX_ARGS argument tokens writes
\* opt_args_buf only below index MAX_ARGS, the terminating NULL included.
C20_BufferWritesInBounds ==
    \A p \in Pids :
        kids[p].ln = lineNo /\ kids[p].st # "forked"
            /\ ArgCount(SegmentOf(kids[p])) <= MAX_ARGS
        => kids[p].maxw < MAX_ARGS

====
